---- MODULE Spec2Model ----
(***************************************************************************)
(* Model of the rate-log crate (src/src/lib.rs): the RateLog tracker with  *)
(* its State, the Limit it is built with, the log() handler and the        *)
(* format_duration() helper.                                               *)
(*                                                                         *)
(* Time is counted in whole milliseconds.  Option<Instant> is a sequence:  *)
(* <<>> is None and <<t>> is Some(t).                                      *)
(***************************************************************************)
EXTENDS Integers, Sequences, FiniteSets, TLC

VARIABLES
    limit,      \* RateLog.limit
    current,    \* RateLog.current : State {count, duration, last_timestamp}
    message,    \* RateLog.message
    output,     \* RateLog.output (cfg(test)), as captured for the latest call
    stdout,     \* the lines the latest call of log() wrote to stdout
    clock,      \* the monotonic clock read by Instant::now()
    calls,      \* number of log() calls made so far
    msg,        \* argument of the latest log() call
    decision,   \* branch the latest log() call took, with what it reported
    pre,        \* message, State, clock and mark as the latest call found them
    repeats,    \* history: calls in a row that carried the tracked message
    emitted,    \* history: <<t>> when the tracked message was printed at t
    notices,    \* history: notices printed for the tracked message
    emitLog,    \* history: the messages printed verbatim, in order
    panicked,   \* whether a call panicked on the overflow of count
    mark,       \* history: <<t>> for the latest call that printed the tracked
                \* message or a notice for it, or the first call of all
    fmt_in,     \* argument of format_duration
    fmt_out,    \* result of format_duration
    fmt_done    \* whether format_duration has been applied

vars == <<limit, current, message, output, stdout, clock, calls, msg,
          decision, pre, repeats, emitted, notices, emitLog, mark,
          panicked, fmt_in, fmt_out, fmt_done>>

trackerVars == <<limit, current, message, output, stdout, clock, calls, msg,
                 decision, pre, repeats, emitted, notices, emitLog, mark,
                 panicked>>

fmtVars == <<fmt_in, fmt_out, fmt_done>>

----------------------------------------------------------------------------
(* Bounds of the model *)

MaxCalls == 5

MaxRate == 3

FmtRadius == 4

\* State.count is a u32; the model keeps CountBits of its 32 bits
CountBits == 3

MaxBurstCalls == 9

Messages == {"", "x", "y"}

Gaps == {0, 20, 40}

BurstMessages == {"x"}

BurstGaps == {0, 20}

DurationLimits == {0, 40, 50}

FmtBoundaries == {0, 1000, 2000, 59000, 60000, 61000, 120000, 3540000,
                  3600000, 3660000, 7200000, 10800000}

FmtInputs ==
    {t \in UNION {(b - FmtRadius)..(b + FmtRadius) : b \in FmtBoundaries} : t >= 0}

----------------------------------------------------------------------------
(* Duration::as_secs and Duration::as_millis on a span of whole ms *)

as_secs(d) == d \div 1000

as_millis(d) == d

\* format_duration with the minute boundary taken as strict
format_duration_strict_minute(duration) ==
    LET total_secs == as_secs(duration) IN
    IF total_secs >= 3600 THEN ToString(total_secs \div 3600) \o "h"
    ELSE IF total_secs > 60 THEN ToString(total_secs \div 60) \o "m"
    ELSE IF total_secs >= 1 THEN ToString(total_secs) \o "s"
    ELSE ToString(as_millis(duration)) \o "ms"

format_duration(duration) ==
    LET total_secs == as_secs(duration) IN
    IF total_secs >= 3600 THEN ToString(total_secs \div 3600) \o "h"
    ELSE IF total_secs >= 60 THEN ToString(total_secs \div 60) \o "m"
    ELSE IF total_secs >= 1 THEN ToString(total_secs) \o "s"
    ELSE ToString(as_millis(duration)) \o "ms"

----------------------------------------------------------------------------
(* Limit and State *)

Rate(n) == [kind |-> "Rate", value |-> n]

Duration(d) == [kind |-> "Duration", value |-> d]

Limits == {Rate(n) : n \in 0..MaxRate} \cup {Duration(d) : d \in DurationLimits}

None == <<>>

Some(t) == <<t>>

\* one more than the largest count
CountModulus == 2 ^ CountBits

\* self.current.count += 1 leaves the range of the counter
add_overflows(count) == count + 1 >= CountModulus

\* self.current.count += 1 where the build does not check the overflow
wrapping_add(count) == (count + 1) % CountModulus

State_new == [count |-> 0, duration |-> 0, last_timestamp |-> None]

\* reset that leaves the count in place
reset_keep_count(st) == [st EXCEPT !.duration = 0, !.last_timestamp = None]

\* reset that leaves the accumulated duration in place
reset_keep_duration(st) == [st EXCEPT !.count = 0, !.last_timestamp = None]

reset(st) == [st EXCEPT !.count = 0, !.duration = 0, !.last_timestamp = None]

\* exceeds_limit with strict comparisons
exceeds_limit_strict(st, lim) ==
    IF lim.kind = "Rate" THEN st.count > lim.value
    ELSE st.duration > lim.value

exceeds_limit(st, lim) ==
    IF lim.kind = "Rate" THEN st.count >= lim.value
    ELSE st.duration >= lim.value

\* the timestamp left absent on a State that was just reset
stamp_unless_reset(st, now) ==
    IF st.count = 0 /\ st.duration = 0 /\ st.last_timestamp = None
    THEN st
    ELSE [st EXCEPT !.last_timestamp = Some(now)]

\* the timestamp stored only when none is held
stamp_if_absent(st, now) ==
    IF st.last_timestamp = None
    THEN [st EXCEPT !.last_timestamp = Some(now)]
    ELSE st

\* self.current.last_timestamp = Some(now), the last statement of log()
stamp(st, now) == [st EXCEPT !.last_timestamp = Some(now)]

\* duration_since that measures nothing
duration_since_zero(now, earlier) == 0

\* Instant::duration_since saturates at zero
duration_since(now, earlier) == IF now >= earlier THEN now - earlier ELSE 0

----------------------------------------------------------------------------
(* What log() writes *)

\* the new message printed inside quotes
EmitLines_quoted(m) == <<"\"" \o m \o "\"">>

\* println!("{msg}") of the new-message branch
EmitLines(m) == <<m>>

\* the notice built from the State as it is after the reset
NoticeText_after_reset(m, count, duration) ==
    "Message: \"" \o m \o "\" repeat for " \o ToString(0)
        \o " times in the past " \o format_duration(0)

NoticeText(m, count, duration) ==
    "Message: \"" \o m \o "\" repeat for " \o ToString(count)
        \o " times in the past " \o format_duration(duration)

\* the println! calls of the limit-exceeded branch
NoticeLines(text) == <<text, text>>

Emit(m) == [kind |-> "Emit", text |-> m, count |-> 0, duration |-> 0]

Silent == [kind |-> "Silent", text |-> "", count |-> 0, duration |-> 0]

Notice(m, c, d) == [kind |-> "Notice", text |-> m, count |-> c, duration |-> d]

\* the call ended in the panic of a checked overflow
Panic == [kind |-> "Panic", text |-> "", count |-> 0, duration |-> 0]

NoDecision == [kind |-> "None", text |-> "", count |-> 0, duration |-> 0]

----------------------------------------------------------------------------
(* RateLog::new *)

New(lim) ==
    /\ limit = lim
    /\ current = State_new
    /\ message = ""
    /\ output = ""

Init ==
    /\ \E lim \in Limits : New(lim)
    /\ stdout = <<>>
    /\ clock = 0
    /\ calls = 0
    /\ msg = ""
    /\ decision = NoDecision
    /\ pre = [message |-> "", current |-> State_new, clock |-> 0, mark |-> None]
    /\ repeats = 0
    /\ emitted = None
    /\ notices = 0
    /\ emitLog = <<>>
    /\ mark = None
    /\ panicked = FALSE
    /\ fmt_in = 0
    /\ fmt_out = ""
    /\ fmt_done = FALSE

(* log() with the tracked message cleared when the notice is printed *)
Log_clears_identity(m, gap) ==
    LET now == clock + gap IN
    /\ clock' = now
    /\ calls' = calls + 1
    /\ msg' = m
    /\ pre' = [message |-> message, current |-> current,
               clock |-> clock, mark |-> mark]
    /\ limit' = limit
    /\ IF message # m
       THEN /\ message' = m
            /\ current' = stamp(reset(current), now)
            /\ stdout' = EmitLines(m)
            /\ output' = m
            /\ decision' = Emit(m)
            /\ repeats' = 0
            /\ emitted' = Some(now)
            /\ notices' = 0
            /\ emitLog' = Append(emitLog, m)
            /\ mark' = Some(now)
            /\ panicked' = FALSE
       ELSE /\ panicked' \in (IF add_overflows(current.count)
                               THEN BOOLEAN ELSE {FALSE})
            /\ repeats' = repeats + 1
            /\ emitted' = emitted
            /\ emitLog' = emitLog
            /\ IF panicked'
               THEN /\ current' = current
                    /\ message' = message
                    /\ stdout' = <<>>
                    /\ output' = ""
                    /\ decision' = Panic
                    /\ notices' = notices
                    /\ mark' = mark
               ELSE LET counted == [current EXCEPT !.count = wrapping_add(@)]
                        timed == IF counted.last_timestamp # None
                                 THEN [counted EXCEPT !.duration =
                                         @ + duration_since(now, counted.last_timestamp[1])]
                                 ELSE counted
                    IN IF exceeds_limit(timed, limit)
                       THEN LET text == NoticeText(m, timed.count, timed.duration) IN
                            /\ stdout' = NoticeLines(text)
                            /\ output' = text
                            /\ current' = stamp(reset(timed), now)
                            /\ decision' = Notice(m, timed.count, timed.duration)
                            /\ notices' = notices + 1
                            /\ mark' = Some(now)
                            /\ message' = ""
                       ELSE /\ message' = message
                            /\ stdout' = <<>>
                            /\ output' = ""
                            /\ current' = stamp(timed, now)
                            /\ decision' = Silent
                            /\ notices' = notices
                            /\ mark' = IF mark = None THEN Some(now) ELSE mark
    /\ UNCHANGED fmtVars

(* RateLog::log, called with m when the clock has advanced by gap.  The    *)
(* increment of count overflows with a panic in a build that checks it and *)
(* wraps around in a build that does not.                                  *)
Log(m, gap) ==
    LET now == clock + gap IN
    /\ clock' = now
    /\ calls' = calls + 1
    /\ msg' = m
    /\ pre' = [message |-> message, current |-> current,
               clock |-> clock, mark |-> mark]
    /\ limit' = limit
    /\ IF message # m
       THEN /\ message' = m
            /\ current' = stamp(reset(current), now)
            /\ stdout' = EmitLines(m)
            /\ output' = m
            /\ decision' = Emit(m)
            /\ repeats' = 0
            /\ emitted' = Some(now)
            /\ notices' = 0
            /\ emitLog' = Append(emitLog, m)
            /\ mark' = Some(now)
            /\ panicked' = FALSE
       ELSE /\ panicked' \in (IF add_overflows(current.count)
                               THEN BOOLEAN ELSE {FALSE})
            /\ message' = message
            /\ repeats' = repeats + 1
            /\ emitted' = emitted
            /\ emitLog' = emitLog
            /\ IF panicked'
               THEN /\ current' = current
                    /\ stdout' = <<>>
                    /\ output' = ""
                    /\ decision' = Panic
                    /\ notices' = notices
                    /\ mark' = mark
               ELSE LET counted == [current EXCEPT !.count = wrapping_add(@)]
                        timed == IF counted.last_timestamp # None
                                 THEN [counted EXCEPT !.duration =
                                         @ + duration_since(now, counted.last_timestamp[1])]
                                 ELSE counted
                    IN IF exceeds_limit(timed, limit)
                       THEN LET text == NoticeText(m, timed.count, timed.duration) IN
                            /\ stdout' = NoticeLines(text)
                            /\ output' = text
                            /\ current' = stamp(reset(timed), now)
                            /\ decision' = Notice(m, timed.count, timed.duration)
                            /\ notices' = notices + 1
                            /\ mark' = Some(now)
                       ELSE /\ stdout' = <<>>
                            /\ output' = ""
                            /\ current' = stamp(timed, now)
                            /\ decision' = Silent
                            /\ notices' = notices
                            /\ mark' = IF mark = None THEN Some(now) ELSE mark
    /\ UNCHANGED fmtVars

\* log() called on a tracker whose thread has not panicked
Call(m, gap) ==
    /\ ~panicked
    /\ calls < MaxCalls
    /\ Log(m, gap)

Next == \E m \in Messages, gap \in Gaps : Call(m, gap)

Spec == Init /\ [][Next]_vars

----------------------------------------------------------------------------
(* one message logged again and again in quick succession *)

BurstCall(m, gap) ==
    /\ ~panicked
    /\ calls < MaxBurstCalls
    /\ Log(m, gap)

NextBurst == \E m \in BurstMessages, gap \in BurstGaps : BurstCall(m, gap)

SpecBurst == Init /\ [][NextBurst]_vars

----------------------------------------------------------------------------
(* format_duration applied to one span *)

InitFmt ==
    /\ New(Rate(1))
    /\ stdout = <<>>
    /\ clock = 0
    /\ calls = 0
    /\ msg = ""
    /\ decision = NoDecision
    /\ pre = [message |-> "", current |-> State_new, clock |-> 0, mark |-> None]
    /\ repeats = 0
    /\ emitted = None
    /\ notices = 0
    /\ emitLog = <<>>
    /\ mark = None
    /\ panicked = FALSE
    /\ fmt_in \in FmtInputs
    /\ fmt_out = ""
    /\ fmt_done = FALSE

Format ==
    /\ ~fmt_done
    /\ fmt_out' = format_duration(fmt_in)
    /\ fmt_done' = TRUE
    /\ UNCHANGED <<fmt_in, trackerVars>>

NextFmt == Format

SpecFmt == InitFmt /\ [][NextFmt]_vars

----------------------------------------------------------------------------
(* Properties *)

Called == calls >= 1

\* the latest call carried a message other than the one tracked when it began
Switched == Called /\ msg # pre.message

\* the latest call repeated the message tracked when it began
Repeated == Called /\ msg = pre.message

\* the tracked message was printed verbatim by an earlier call
WasEmitted == emitted # None

\* time between the call that printed the tracked message and the latest call
SinceEmit == clock - emitted[1]

\* C1: on a fresh tracker the first call, whatever its message (the empty
\* string included), emits the message verbatim and counts no repeat.
C1_FirstCallEmits ==
    calls = 1 => /\ decision = Emit(msg)
                 /\ stdout = <<msg>>
                 /\ current.count = 0

C4_SwitchResets ==
    /\ Switched => /\ decision = Emit(msg)
                   /\ message = msg
                   /\ current.count = 0
                   /\ current.duration = 0
    /\ (WasEmitted /\ repeats = 1)
           => /\ decision.kind = "Silent" => /\ current.count = 1
                                             /\ current.duration = SinceEmit
              /\ decision.kind = "Notice" => /\ decision.count = 1
                                             /\ decision.duration = SinceEmit

C4_Witness ==
    /\ Switched
    /\ pre.current.count > 0
    /\ pre.current.duration > 0
    /\ \E i \in 1..(Len(emitLog) - 1) : emitLog[i] = msg
    /\ decision = Emit(msg)

C6_NoticeWrittenOnce ==
    (WasEmitted /\ decision.kind = "Notice") => Len(stdout) = 1

\* C7: under Rate(n) the notice comes only when the message was repeated more
\* than n times: repeats 1..n are silent, repeat n+1 prints the notice
\* reporting n.
C7_RateMoreThanN ==
    (limit.kind = "Rate" /\ limit.value >= 1 /\ WasEmitted
        /\ repeats \in 1..(limit.value + 1))
    => IF repeats = limit.value + 1
       THEN decision.kind = "Notice" /\ decision.count = limit.value
       ELSE decision = Silent

\* C8: under Duration(d) the notice comes only when the accumulated time is
\* strictly more than d; a repeat that brings it to exactly d prints none.
C8_DurationStrictlyMore ==
    (limit.kind = "Duration" /\ limit.value > 0 /\ WasEmitted
        /\ decision.kind = "Notice")
    => decision.duration > limit.value

\* the repeat the latest call made stayed below the limit
C9_BelowThreshold ==
    /\ Repeated
    /\ IF limit.kind = "Rate"
       THEN pre.current.count + 1 < limit.value
       ELSE /\ pre.current.last_timestamp # None
            /\ pre.current.duration + (clock - pre.current.last_timestamp[1])
                   < limit.value

\* C9: a call with a message other than the tracked one writes one line, the
\* message as it is; a repeat below the threshold writes nothing.
C9_EmitOneLineSilentNone ==
    /\ Switched => stdout = <<msg>> /\ output = msg
    /\ C9_BelowThreshold => stdout = <<>> /\ output = ""

C9_Witness ==
    /\ Switched
    /\ msg = "x"
    /\ pre.message = "y"
    /\ pre.current.count = 1
    /\ stdout = <<"x">>
    /\ output = "x"

\* format_duration as the specification words it, on a span of whole ms
FmtReference(ms) ==
    IF ms >= 3600 * 1000 THEN ToString(ms \div (3600 * 1000)) \o "h"
    ELSE IF ms >= 60 * 1000 THEN ToString(ms \div (60 * 1000)) \o "m"
    ELSE IF ms >= 1000 THEN ToString(ms \div 1000) \o "s"
    ELSE ToString(ms) \o "ms"

\* C10: format_duration renders whole hours from 3600s, else whole minutes
\* from 60s, else whole seconds from 1s, else milliseconds, truncating; the
\* number rendered is 0 only in ms.
C10_FormatDuration ==
    fmt_done =>
        /\ fmt_out = FmtReference(fmt_in)
        /\ fmt_in = 999 => fmt_out = "999ms"
        /\ fmt_in = 1000 => fmt_out = "1s"
        /\ fmt_in = 59999 => fmt_out = "59s"
        /\ fmt_in = 60000 => fmt_out = "1m"
        /\ fmt_in = 3599999 => fmt_out = "59m"
        /\ fmt_in = 3600000 => fmt_out = "1h"
        /\ fmt_out \notin {"0s", "0m", "0h"}
        /\ fmt_out = "0ms" <=> fmt_in = 0

C10_Witness ==
    /\ fmt_done
    /\ fmt_in = 3599999
    /\ fmt_out = "59m"

\* the call before the latest one printed a notice for the same message
PrevWasNotice == Repeated /\ repeats >= 2 /\ pre.current.count = 0

\* time between the call before the latest one and the latest one
SincePrevCall == clock - pre.clock

\* C11 as claimed: on return from a call that printed a notice the State has
\* count 0, duration 0 and no last_timestamp, so the gap to the next repeat
\* is not accumulated.
C11_TriggerLeavesNoTimestamp ==
    /\ (WasEmitted /\ decision.kind = "Notice")
           => /\ current.count = 0
              /\ current.duration = 0
              /\ current.last_timestamp = None
    /\ (WasEmitted /\ PrevWasNotice /\ decision.kind = "Silent")
           => current.duration = 0

\* C11 amended: on return from a call that printed a notice the State has
\* count 0, duration 0 and last_timestamp holding the time of that call, the
\* message stays tracked, and the gap to the next repeat is accumulated.
C11_TriggerKeepsTimestamp ==
    /\ decision.kind = "Notice"
           => /\ current.count = 0
              /\ current.duration = 0
              /\ current.last_timestamp = <<clock>>
              /\ message = msg
    /\ PrevWasNotice
           => /\ pre.current.duration = 0
              /\ pre.current.last_timestamp = <<pre.clock>>
              /\ decision.kind = "Silent" => current.duration = SincePrevCall
              /\ decision.kind = "Notice" => decision.duration = SincePrevCall

C11_Witness ==
    /\ WasEmitted
    /\ PrevWasNotice
    /\ SincePrevCall = 40
    /\ decision = Silent
    /\ current.duration = 40

\* what the latest call, a repeat, added to the accumulated duration
AddedByRepeat ==
    (IF decision.kind = "Notice" THEN decision.duration ELSE current.duration)
        - pre.current.duration

\* C12: between resets the accumulated duration never decreases; what a
\* repeat adds is the gap since the call before it, which carried the same
\* message; the first repeat after a change of message adds only the time
\* since the call that printed the new message.
C12_GapsOfTrackedIdentity ==
    /\ Called => message = msg
    /\ Repeated
           => /\ AddedByRepeat >= 0
              /\ AddedByRepeat = (IF calls >= 2 THEN SincePrevCall ELSE 0)
              /\ calls >= 2 => pre.current.last_timestamp = <<pre.clock>>
    /\ (WasEmitted /\ repeats = 1)
           => /\ AddedByRepeat = SinceEmit
              /\ pre.current.duration = 0

C12_Witness ==
    /\ WasEmitted
    /\ Len(emitLog) >= 2
    /\ emitted[1] >= 40
    /\ repeats = 1
    /\ SinceEmit = 20
    /\ decision = Silent
    /\ current.duration = 20

\* the gap the latest call measured: none on the first call of all
GapMeasured == IF calls >= 2 THEN SincePrevCall ELSE 0

\* C13: every repeat counts and accumulates time whatever the kind of limit,
\* and a notice reports the count and the duration as they were at the
\* trigger, before the reset.
C13_BothTrackedAndCaptured ==
    /\ (Repeated /\ decision.kind = "Silent")
           => /\ current.count = pre.current.count + 1
              /\ current.duration = pre.current.duration + GapMeasured
    /\ (Repeated /\ decision.kind = "Notice")
           => /\ decision.count = pre.current.count + 1
              /\ decision.count >= 1
              /\ decision.duration = pre.current.duration + GapMeasured
              /\ output = "Message: \"" \o msg \o "\" repeat for "
                            \o ToString(pre.current.count + 1)
                            \o " times in the past "
                            \o format_duration(pre.current.duration + GapMeasured)
    /\ (WasEmitted /\ decision.kind = "Notice" /\ notices = 1)
           => /\ decision.count = repeats
              /\ decision.duration = SinceEmit

C13_Witness ==
    /\ limit = Rate(2)
    /\ WasEmitted
    /\ decision = Notice(msg, 2, 60)
    /\ output = "Message: \"" \o msg \o "\" repeat for 2 times in the past 60ms"

\* C14: no call of log() changes the limit, and the tracked message changes
\* only in a call whose message differs from it: a call that is silent or
\* prints a notice leaves both as they were.
C14_LimitAndIdentityFrame ==
    [][/\ limit' = limit
       /\ message' # message => (msg' # message /\ message' = msg')
       /\ (calls' # calls /\ decision'.kind \in {"Silent", "Notice"})
              => (message' = message /\ limit' = limit)]_vars

C14_Witness ==
    /\ Repeated
    /\ WasEmitted
    /\ decision.kind = "Notice"
    /\ message = pre.message
    /\ message = "y"
    /\ limit = Duration(50)

\* the time of the call that opened the window the latest call belongs to:
\* the latest earlier call that printed the message or a notice for it, or
\* the first call of all
WindowStart == IF pre.mark = None THEN clock ELSE pre.mark[1]

\* C15: with a monotonic clock the duration a notice reports is the time
\* since the latest earlier call that printed the message or a notice for it
\* (or since the first call on a fresh tracker), so the windows of successive
\* notices tile the timeline; after every call last_timestamp holds the time
\* of that call.
C15_NoticeWindowsTile ==
    /\ (Called /\ ~panicked) => current.last_timestamp = <<clock>>
    /\ decision.kind = "Notice"
           => /\ decision.duration = clock - WindowStart
              /\ mark = <<clock>>
    /\ decision.kind = "Silent"
           => /\ mark # None
              /\ current.duration = clock - mark[1]
    /\ decision.kind = "Emit" => mark = <<clock>>

C15_Witness ==
    /\ WasEmitted
    /\ notices = 2
    /\ decision.kind = "Notice"
    /\ pre.mark = <<40>>
    /\ emitted = <<0>>
    /\ clock = 100
    /\ decision.duration = 60

\* C16: under Rate(n), n >= 1, whatever the messages, the count is within
\* 0..n-1 at the end of every call and every notice reports count n.
C16_RateCountRange ==
    (limit.kind = "Rate" /\ limit.value >= 1)
    => /\ current.count \in 0..(limit.value - 1)
       /\ decision.kind = "Notice" => /\ decision.count = limit.value
                                      /\ pre.current.count = limit.value - 1
       /\ decision.kind = "Silent" => current.count = pre.current.count + 1

C16_Witness ==
    /\ limit = Rate(3)
    /\ calls >= 4
    /\ Len(emitLog) >= 2
    /\ decision = Silent
    /\ current.count = 2

\* C17: with a zero threshold, Rate(0) or Duration(0), every repeat of the
\* tracked message prints a notice reporting count 1; none is silent.
C17_ZeroThreshold ==
    (limit.value = 0 /\ Repeated)
    => /\ decision.kind = "Notice"
       /\ decision.count = 1
       /\ pre.current.count = 0
       /\ stdout # <<>>

C17_Witness ==
    /\ limit = Duration(0)
    /\ WasEmitted
    /\ Repeated
    /\ repeats = 3
    /\ notices = 3
    /\ GapMeasured = 0
    /\ decision = Notice(msg, 1, 0)

\* C18: the increment of the repeat counter never overflows, whatever the
\* limit and the calls: count + 1 stays below 2^w in every reachable state
\* and no call panics.
C18_CountNeverOverflows ==
    /\ ~panicked
    /\ current.count + 1 < CountModulus

====
